---- MODULE Spec2Model ----
(***************************************************************************)
(* Food-menu backend (Express + Cassandra): the connection lifecycle of    *)
(* connectToDatabase, the readiness gate checkDbConnection and the data    *)
(* routes, as a state machine.                                             *)
(*                                                                         *)
(* One step of the model is one run-to-completion turn of the Node event   *)
(* loop: a callback runs from the event that resumes it up to its next     *)
(* await (or its return), and nothing else of the process runs in between. *)
(***************************************************************************)
EXTENDS Integers, Sequences, FiniteSets, TLC

(* ------------------------------------------------------------------ *)
(* Bounds of the model                                                 *)
(* ------------------------------------------------------------------ *)

\* attempt and failures count up to MaxAttempts and then stay there
MaxAttempts == 3

\* the clock new Date() reads runs from 0 to MaxClock
MaxClock == 1

(* ------------------------------------------------------------------ *)
(* Program constants                                                   *)
(* ------------------------------------------------------------------ *)

\* sleep(5000) in the catch block of connectToDatabase
RETRY_DELAY_MS == 5000

\* the awaits of the try block of connectToDatabase, in program order
StepOrder == <<"connect", "createKeyspace", "useKeyspace", "createTable", "testSelect">>

Steps == {StepOrder[i] : i \in 1..Len(StepOrder)}

StepIndex(s) == CHOOSE i \in 1..Len(StepOrder) : StepOrder[i] = s

Min(a, b) == IF a <= b THEN a ELSE b

(* ------------------------------------------------------------------ *)
(* Values: strings, identifiers, request bodies, rows                  *)
(* ------------------------------------------------------------------ *)

\* A JavaScript string is the sequence of its characters; null/undefined is NULL.
NULL == <<"null">>

\* String.prototype.toLowerCase, character by character
ToLowerChar(c) ==
    CASE c = "A" -> "a"
      [] c = "B" -> "b"
      [] c = "C" -> "c"
      [] c = "D" -> "d"
      [] c = "S" -> "s"
      [] OTHER -> c

toLowerCase(s) == [i \in 1..Len(s) |-> ToLowerChar(s[i])]

\* String.prototype.includes: t occurs in s as a contiguous substring
includes(s, t) ==
    \E i \in 0..(Len(s) - Len(t)) : SubSeq(s, i + 1, i + Len(t)) = t

\* JavaScript truthiness of a string-or-null value: null, undefined and "" are falsy
Truthy(s) == s # NULL /\ s # <<>>

\* req.query.q: absent, a string, or (for a repeated parameter) an array
QAbsent == <<"absent">>
QArray == <<"array">>
Terms == { QAbsent, QArray, <<>>, <<" ", " ", " ">>, <<"a", "b">>, <<"A", "B">>, <<"S">> }

\* the ids a request may carry: two well-formed UUIDs and one malformed string
Ids == {"u1", "u2"}
IdParams == Ids \cup {"bad"}

\* cassandra.types.Uuid.fromString throws on anything that is not a UUID
UuidParses(id) == id \in Ids

\* the order in which storage returns the rows of a full scan (token order)
TokenOrder == <<"u2", "u1">>

\* a timestamp column that was never written
NoTime == 0 - 1

\* req.body of create and update; a field the client left out is NULL / "undefined";
\* BodySoup also carries an id of the client's choosing
BodySoup == [id |-> "u1", name |-> <<"A", "b">>, description |-> <<"c", " ", "d">>,
             category |-> <<"S">>, price |-> "'4.50'", is_vegetarian |-> "true"]
BodyCake == [id |-> "undefined", name |-> <<"C">>, description |-> <<"a", "B", "c">>,
             category |-> <<"D">>, price |-> "'7abc'", is_vegetarian |-> "undefined"]
BodyNoName == [BodySoup EXCEPT !.name = NULL]
BodyNoPrice == [BodyCake EXCEPT !.price = "undefined"]
NoBody == [id |-> "undefined", name |-> NULL, description |-> NULL, category |-> NULL,
           price |-> "undefined", is_vegetarian |-> "undefined"]
Bodies == {BodySoup, BodyCake, BodyNoName, BodyNoPrice}

\* parseFloat on the price values of Bodies: the longest numeric prefix of the string
parseFloat(p) ==
    CASE p = "'4.50'" -> "4.5"
      [] p = "'7abc'" -> "7"
      [] OTHER -> "NaN"

\* is_vegetarian === 'true' || is_vegetarian === true
IsVegetarian(v) == v = "'true'" \/ v = "true"

\* (variant) the price is not tested
MissingFieldsPriceUntested(b) ==
    \/ ~Truthy(b.name)
    \/ ~Truthy(b.description)
    \/ ~Truthy(b.category)

\* !name || !description || !category || price === undefined
MissingFields(b) ==
    \/ ~Truthy(b.name)
    \/ ~Truthy(b.description)
    \/ ~Truthy(b.category)
    \/ b.price = "undefined"

\* a row of menu_items; a column that was never written is NULL / "null" / NoTime
Row(id, name, description, category, price, veg, created, updated) ==
    [id |-> id, name |-> name, description |-> description, category |-> category,
     price |-> price, is_vegetarian |-> veg, created_at |-> created, updated_at |-> updated]

NoArgs == Row("", NULL, NULL, NULL, "null", "null", NoTime, NoTime)

\* tables the process may find in the keyspace when it starts
SeedRow == Row("u1", <<"A", "b">>, NULL, <<"d">>, "4.5", "true", 0, 0)
NullRow == Row("u2", NULL, NULL, NULL, "null", "null", NoTime, NoTime)
InitTables ==
    { <<>>,
      [i \in {"u1"} |-> SeedRow],
      [i \in {"u1", "u2"} |-> IF i = "u1" THEN SeedRow ELSE NullRow] }

VARIABLES
    isDbConnected,  \* let isDbConnected
    dbInitialized,  \* let dbInitialized
    mainPc,         \* position of the module's top-level code
    started,        \* number of top-level calls of connectToDatabase
    listening,      \* app.listen has been called
    pc,             \* what the innermost connectToDatabase activation awaits
    attempt,        \* activations of connectToDatabase so far (saturating)
    failures,       \* times the catch block was entered (saturating)
    successes,      \* times the try block ran to its return
    issued,         \* the steps this activation has issued, in order
    okSteps,        \* how many of them have succeeded
    timer,          \* the delay of the armed sleep timer, 0 when none is armed
    promise,        \* the promise the top-level call returned
    table,          \* menu_items: the stored rows the requests deal with, by id
    others,         \* how many more rows menu_items holds, all ahead in token order
    clock,          \* the time new Date() reads
    req,            \* the requests, by connection: parameters, locals, response
    hpc,            \* the page's checkServerHealth chain: where it is
    checks,         \* calls of checkServerHealth so far (saturating)
    htimer,         \* the delay of the armed health timer, 0 when none is armed
    autoFetches,    \* calls of fetchMenuItems made by checkServerHealth
    retryCount,     \* let retryCount
    inflight,       \* fetch('/api/menu-items') calls not yet settled
    ltimers,        \* armed setTimeout(fetchMenuItems, delay) timers
    lastDelay,      \* the delay of the timer armed last, 0 when none was
    isEditing,      \* let isEditing
    btnText,        \* submitBtn.textContent
    btnDisabled,    \* submitBtn.disabled
    cancelHidden,   \* cancelBtn carries the class hidden
    menuId,         \* the value of the hidden field menuId
    submission,     \* the submit handler's request in flight: "none", "POST", "PUT"
    originalBtnText,\* const originalBtnText of the submit handler in flight
    edits           \* handleEdit requests not yet settled

lifecycleVars == <<isDbConnected, dbInitialized, pc, attempt, failures,
                   successes, issued, okSteps, timer, promise>>
mainVars == <<mainPc, started, listening>>
pollVars == <<hpc, checks, htimer, autoFetches>>
listVars == <<retryCount, inflight, ltimers, lastDelay>>
formVars == <<isEditing, btnText, btnDisabled, cancelHidden, menuId, submission,
              originalBtnText, edits>>
clientVars == <<pollVars, listVars, formVars>>
dataVars == <<table, others, clock, req, clientVars>>
vars == <<lifecycleVars, mainVars, dataVars>>

(* ------------------------------------------------------------------ *)
(* connectToDatabase                                                   *)
(* ------------------------------------------------------------------ *)

\* (variant) the try block returns after CREATE TABLE, without the test query
NextStepNoTest(s) ==
    IF StepIndex(s) < Len(StepOrder) - 1 THEN StepOrder[StepIndex(s) + 1] ELSE "return"

\* (variant) USE food_menu is issued before CREATE KEYSPACE
NextStepSwapped(s) ==
    CASE s = "connect" -> "useKeyspace"
      [] s = "useKeyspace" -> "createKeyspace"
      [] s = "createKeyspace" -> "createTable"
      [] s = "createTable" -> "testSelect"
      [] OTHER -> "return"

\* the step the try block issues once step s has succeeded; "return" after the last
NextStep(s) ==
    IF StepIndex(s) < Len(StepOrder) THEN StepOrder[StepIndex(s) + 1] ELSE "return"

\* (variant) isDbConnected is set as soon as client.connect() has resolved
FlagsAfterConnect(s) ==
    IF NextStep(s) = "return" THEN <<TRUE, TRUE>> ELSE <<TRUE, dbInitialized>>

\* (variant) the return path sets isDbConnected only
FlagsAfterPartial(s) ==
    IF NextStep(s) = "return" THEN <<TRUE, dbInitialized>> ELSE <<isDbConnected, dbInitialized>>

\* the two flags once step s has succeeded: set after the last step, not before
FlagsAfter(s) ==
    IF NextStep(s) = "return" THEN <<TRUE, TRUE>> ELSE <<isDbConnected, dbInitialized>>

\* (variant) the delay grows with the number of the attempt
SleepDelayBackoff(n) == RETRY_DELAY_MS * n

\* the delay the catch block sleeps before the recursive call
SleepDelay(n) == RETRY_DELAY_MS

\* (variant) the catch block logs and rethrows
CatchRethrowsAlways == TRUE

\* the catch block handles every error of the try block: nothing is rethrown
CatchRethrows == FALSE

\* function entry up to the first await: client.connect() is issued
EnterConnect ==
    /\ pc' = "connect"
    /\ issued' = <<"connect">>
    /\ okSteps' = 0
    /\ attempt' = Min(attempt + 1, MaxAttempts)

\* line 103: the top-level call; the promise is dropped, not awaited
CallConnect ==
    /\ mainPc = "call"
    /\ EnterConnect
    /\ started' = started + 1
    /\ promise' = "pending"
    /\ mainPc' = "listen"
    /\ UNCHANGED <<isDbConnected, dbInitialized, failures, successes, timer, listening, dataVars>>

\* the awaited step resolves: the try block goes on to the next await, or returns
StepSucceeds ==
    /\ pc \in Steps
    /\ okSteps' = okSteps + 1
    /\ isDbConnected' = FlagsAfter(pc)[1]
    /\ dbInitialized' = FlagsAfter(pc)[2]
    /\ IF NextStep(pc) = "return"
         THEN /\ pc' = "returned"
              /\ successes' = successes + 1
              /\ promise' = "resolved"
              /\ UNCHANGED issued
         ELSE /\ pc' = NextStep(pc)
              /\ issued' = Append(issued, NextStep(pc))
              /\ UNCHANGED <<successes, promise>>
    /\ UNCHANGED <<attempt, failures, timer, mainVars, dataVars>>

\* (variant) an error of the client after the return enters the catch block as well
StepFailsAfterReturn ==
    /\ pc \in Steps \cup {"returned"}
    /\ failures' = Min(failures + 1, MaxAttempts)
    /\ isDbConnected' = FALSE
    /\ dbInitialized' = FALSE
    /\ pc' = "sleep"
    /\ timer' = SleepDelay(attempt)
    /\ UNCHANGED <<promise, attempt, successes, issued, okSteps, mainVars, dataVars>>

\* the awaited step rejects: the catch block runs up to await sleep(5000)
StepFails ==
    /\ pc \in Steps
    /\ failures' = Min(failures + 1, MaxAttempts)
    /\ IF CatchRethrows
         THEN /\ promise' = "rejected"
              /\ pc' = "thrown"
              /\ timer' = 0
              /\ UNCHANGED <<isDbConnected, dbInitialized>>
         ELSE /\ isDbConnected' = FALSE
              /\ dbInitialized' = FALSE
              /\ pc' = "sleep"
              /\ timer' = SleepDelay(attempt)
              /\ UNCHANGED promise
    /\ UNCHANGED <<attempt, successes, issued, okSteps, mainVars, dataVars>>

\* (variant) the recursive call is made for the first retry only
RetryGivesUp ==
    /\ pc = "sleep"
    /\ attempt < 2
    /\ EnterConnect
    /\ timer' = 0
    /\ UNCHANGED <<isDbConnected, dbInitialized, failures, successes, promise, mainVars, dataVars>>

\* the sleep timer fires: return connectToDatabase()
Retry ==
    /\ pc = "sleep"
    /\ EnterConnect
    /\ timer' = 0
    /\ UNCHANGED <<isDbConnected, dbInitialized, failures, successes, promise, mainVars, dataVars>>

(* ------------------------------------------------------------------ *)
(* Top-level code                                                      *)
(* ------------------------------------------------------------------ *)

\* (variant) the top-level code awaits connectToDatabase() before app.listen
ListenGuardAwaits == mainPc = "listen" /\ pc = "returned"

\* what the top-level code waits for before it reaches app.listen: nothing
ListenGuard == mainPc = "listen"

\* line 339: app.listen
Listen ==
    /\ ListenGuard
    /\ listening' = TRUE
    /\ mainPc' = "running"
    /\ UNCHANGED <<started, lifecycleVars, dataVars>>


(* ------------------------------------------------------------------ *)
(* Storage: what the statements of the routes do to menu_items         *)
(* ------------------------------------------------------------------ *)

Present(t, id) == id \in DOMAIN t

Put(t, row) == [i \in (DOMAIN t) \cup {row.id} |-> IF i = row.id THEN row ELSE t[i]]

Remove(t, id) == [i \in (DOMAIN t) \ {id} |-> t[i]]

\* queryOptions.fetchSize: the rows of one page
FETCH_SIZE == 1000

\* SELECT * FROM menu_items through client.execute: result.rows is the first page of
\* the scan in token order. Of the rows of t it holds those the page has room for
\* after the others (which are not represented in the result)
SelectAll(t) ==
    LET present == SelectSeq(TokenOrder, LAMBDA i : Present(t, i))
        room == IF others >= FETCH_SIZE THEN 0 ELSE Min(Len(present), FETCH_SIZE - others)
    IN  [k \in 1..room |-> t[present[k]]]

\* SELECT * FROM menu_items WHERE id = ?
SelectById(t, id) == IF Present(t, id) THEN <<t[id]>> ELSE <<>>

\* INSERT INTO menu_items (...) VALUES (...): writes every column of the row
Insert(t, a) == Put(t, a)

\* (variant) the write is dropped when the stored row carries a later updated_at
UpdateIfNewer(t, a) ==
    IF Present(t, a.id) /\ t[a.id].updated_at > a.updated_at THEN t
    ELSE Put(t, [a EXCEPT !.created_at = IF Present(t, a.id) THEN t[a.id].created_at ELSE NoTime])

\* (variant) the statement writes every column, created_at included
UpdateWritesCreatedAt(t, a) == Put(t, a)

\* UPDATE menu_items SET ... WHERE id = ?: writes the six SET columns of the row
\* with that key; created_at is not among them and keeps what it had
Update(t, a) ==
    Put(t, [a EXCEPT !.created_at = IF Present(t, a.id) THEN t[a.id].created_at ELSE NoTime])

\* (variant) the statement has no WHERE clause effect: every row goes
DeleteEveryRow(t, a) == [i \in {} |-> t[i]]

\* DELETE FROM menu_items WHERE id = ?
Delete(t, a) == Remove(t, a.id)

\* the table after the statement
ApplyOp(t, op, a) ==
    CASE op = "insert" -> Insert(t, a)
      [] op = "update" -> Update(t, a)
      [] op = "delete" -> Delete(t, a)
      [] OTHER -> t

\* result.rows of the statement
ResultRows(t, op, a) ==
    CASE op = "selectAll" -> SelectAll(t)
      [] op = "selectById" -> SelectById(t, a.id)
      [] OTHER -> <<>>

(* ------------------------------------------------------------------ *)
(* Requests                                                            *)
(* ------------------------------------------------------------------ *)

\* the connections a request can arrive on; each carries one request at a time
AllConns == {"c1", "c2"}

\* the connections in use under Spec
Conns == {"c1"}

DataRoutes == {"list", "get", "create", "update", "delete", "search"}

IdleReq ==
    [route |-> "none", st |-> "idle", id |-> "", body |-> NoBody, term |-> QAbsent,
     flags |-> <<FALSE, FALSE>>, passed |-> FALSE, ops |-> 0, op |-> "none", args |-> NoArgs,
     searchTerm |-> <<>>, rows |-> <<>>,
     status |-> 0, sent |-> 0, err |-> "", location |-> "", out |-> <<>>, outId |-> "",
     up |-> "", database |-> "", initialized |-> "", found |-> FALSE]

\* checkDbConnection calls next(): neither flag is false
checkDbConnection == ~(~isDbConnected \/ ~dbInitialized)

\* res.status(code).json(...): one more response is sent
Respond(q, code) == [q EXCEPT !.st = "done", !.status = code, !.sent = @ + 1]

\* await client.execute(query, params, { prepare: true })
Execute(q, op, a) == [q EXCEPT !.st = "pending", !.op = op, !.args = a, !.ops = @ + 1]

BoolStr(b) == IF b THEN "true" ELSE "false"

\* (variant) the catch block issues the failed statement again
CatchReissues(q, e) ==
    IF q.op = "none" THEN [Respond(q, 500) EXCEPT !.err = e]
    ELSE [Execute(q, q.op, q.args) EXCEPT !.err = e]

\* the handler's catch block, entered with error e
Catch(q, e) == [Respond(q, 500) EXCEPT !.err = e]

\* GET /api/menu-items, up to its await
getMenuItems(q) == Execute(q, "selectAll", NoArgs)

\* (variant) the 400 of the inner catch is sent without return: the handler goes on
getMenuItemNoReturn(q) ==
    IF ~UuidParses(q.id)
      THEN Execute(Respond(q, 400), "selectById", [NoArgs EXCEPT !.id = q.id])
      ELSE Execute(q, "selectById", [NoArgs EXCEPT !.id = q.id])

\* GET /api/menu-items/:id, up to its await
getMenuItem(q) ==
    IF ~UuidParses(q.id) THEN Respond(q, 400)
    ELSE Execute(q, "selectById", [NoArgs EXCEPT !.id = q.id])

\* (variant) an id in the body is used where there is one
createMenuItemClientId(q, uuid, now) ==
    IF MissingFields(q.body) THEN Respond(q, 400)
    ELSE Execute(q, "insert",
                 Row(IF q.body.id \in Ids THEN q.body.id ELSE uuid,
                     q.body.name, q.body.description, q.body.category,
                     parseFloat(q.body.price), BoolStr(IsVegetarian(q.body.is_vegetarian)),
                     now, now))

\* (variant) description and category are bound to each other's column
createMenuItemSwapped(q, uuid, now) ==
    IF MissingFields(q.body) THEN Respond(q, 400)
    ELSE Execute(q, "insert",
                 Row(uuid, q.body.name, q.body.category, q.body.description,
                     parseFloat(q.body.price), BoolStr(IsVegetarian(q.body.is_vegetarian)),
                     now, now))

\* POST /api/menu-items, up to its await
createMenuItem(q, uuid, now) ==
    IF MissingFields(q.body) THEN Respond(q, 400)
    ELSE Execute(q, "insert",
                 Row(uuid, q.body.name, q.body.description, q.body.category,
                     parseFloat(q.body.price), BoolStr(IsVegetarian(q.body.is_vegetarian)),
                     now, now))

\* PUT /api/menu-items/:id, up to its await
updateMenuItem(q, now) ==
    IF ~UuidParses(q.id) THEN Respond(q, 400)
    ELSE IF MissingFields(q.body) THEN Respond(q, 400)
    ELSE Execute(q, "update",
                 Row(q.id, q.body.name, q.body.description, q.body.category,
                     parseFloat(q.body.price), BoolStr(IsVegetarian(q.body.is_vegetarian)),
                     NoTime, now))

\* DELETE /api/menu-items/:id, up to its await
deleteMenuItem(q) ==
    IF ~UuidParses(q.id) THEN Respond(q, 400)
    ELSE Execute(q, "delete", [NoArgs EXCEPT !.id = q.id])

\* req.query.q ? req.query.q.toLowerCase() : ''
SearchTerm(term) == IF term # QAbsent /\ term # <<>> THEN toLowerCase(term) ELSE <<>>

\* GET /api/search, up to its await; an array has no toLowerCase: the catch answers
searchMenuItems(q) ==
    IF q.term = QArray THEN Catch(q, "TypeError")
    ELSE IF SearchTerm(q.term) = <<>>
         THEN [Respond(q, 302) EXCEPT !.location = "/api/menu-items"]
         ELSE [Execute(q, "selectAll", NoArgs) EXCEPT !.searchTerm = SearchTerm(q.term)]

\* (variant) the fields are compared without being lower-cased
MatchesCaseSensitive(item, searchTerm) ==
    \/ (Truthy(item.name) /\ includes(item.name, searchTerm))
    \/ (Truthy(item.description) /\ includes(item.description, searchTerm))
    \/ (Truthy(item.category) /\ includes(item.category, searchTerm))

\* the predicate of rows.filter in GET /api/search
Matches(item, searchTerm) ==
    \/ (Truthy(item.name) /\ includes(toLowerCase(item.name), searchTerm))
    \/ (Truthy(item.description) /\ includes(toLowerCase(item.description), searchTerm))
    \/ (Truthy(item.category) /\ includes(toLowerCase(item.category), searchTerm))

\* (variant) toLowerCase is called on a field without the test: a null field throws
FilterThrowsOnNull(item) ==
    item.name = NULL \/ item.description = NULL \/ item.category = NULL

\* the filter callback throws on this item: never, each field is tested before use
FilterThrows(item) == FALSE

\* (variant) GET /health is registered behind checkDbConnection
healthGated(q) ==
    IF checkDbConnection
      THEN [Respond(q, 200) EXCEPT !.up = "UP", !.database = "Connected", !.initialized = "Yes"]
      ELSE Respond(q, 503)

\* GET /health
health(q) ==
    [Respond(q, 200) EXCEPT
        !.up = "UP",
        !.database = IF isDbConnected THEN "Connected" ELSE "Disconnected",
        !.initialized = IF dbInitialized THEN "Yes" ELSE "No"]

\* the route handler behind checkDbConnection, up to its first await
Handler(q, uuid, now) ==
    CASE q.route = "list" -> getMenuItems(q)
      [] q.route = "get" -> getMenuItem(q)
      [] q.route = "create" -> createMenuItem(q, uuid, now)
      [] q.route = "update" -> updateMenuItem(q, now)
      [] q.route = "delete" -> deleteMenuItem(q)
      [] q.route = "search" -> searchMenuItems(q)

\* (variant) GET /api/search is registered without checkDbConnection
GatedSearchOpen(q, uuid, now) ==
    IF checkDbConnection \/ q.route = "search"
      THEN Handler([q EXCEPT !.passed = TRUE], uuid, now)
      ELSE Respond(q, 503)

\* (variant) the test of checkDbConnection is inverted
GatedInverted(q, uuid, now) ==
    IF ~checkDbConnection
      THEN Handler([q EXCEPT !.passed = TRUE], uuid, now)
      ELSE Respond(q, 503)

\* a data route: checkDbConnection answers 503, or calls next() and the handler runs
Gated(q, uuid, now) ==
    IF checkDbConnection
      THEN Handler([q EXCEPT !.passed = TRUE], uuid, now)
      ELSE Respond(q, 503)

\* (variant) a delete that finds no record of the id answers 404
DeleteStatusNotFound(q) == IF Present(table, q.id) THEN 200 ELSE 404

\* the status DELETE answers once its statement has succeeded: res.json, whether or
\* not the statement found a row
DeleteStatus(q) == 200

\* the handler after its await resolved with result.rows = rows
Resume(q, rows) ==
    CASE q.route = "list" -> [Respond(q, 200) EXCEPT !.out = rows]
      [] q.route = "get" ->
            IF Len(rows) = 0 THEN Respond(q, 404)
            ELSE [Respond(q, 200) EXCEPT !.out = <<rows[1]>>]
      [] q.route = "create" -> [Respond(q, 201) EXCEPT !.outId = q.args.id]
      [] q.route = "update" -> Respond(q, 200)
      [] q.route = "delete" -> Respond(q, DeleteStatus(q))
      [] q.route = "search" ->
            IF \E i \in 1..Len(rows) : FilterThrows(rows[i])
              THEN Catch([q EXCEPT !.rows = rows], "TypeError")
              ELSE [Respond(q, 200) EXCEPT
                       !.rows = rows,
                       !.out = SelectSeq(rows, LAMBDA item : Matches(item, q.searchTerm))]

\* the ids Uuid.random() can return: one no row and no insert in flight has
FreshIds ==
    Ids \ (DOMAIN table \cup {req[c].args.id : c \in {d \in AllConns : req[d].op = "insert"}})

\* the request as it arrives; flags records the two flags at that moment
NewReq(route, id, body, term) ==
    [IdleReq EXCEPT !.route = route, !.id = id, !.body = body, !.term = term,
                    !.flags = <<isDbConnected, dbInitialized>>]

\* a request arrives on connection c and runs up to its first await or its response
Arrives(c, route, id, body, term, uuid) ==
    /\ listening
    /\ req[c].st # "pending"
    /\ req' = [req EXCEPT ![c] = Gated(NewReq(route, id, body, term), uuid, clock)]
    /\ UNCHANGED <<table, others, clock, lifecycleVars, mainVars, clientVars>>

ListArrives == \E c \in Conns : Arrives(c, "list", "", NoBody, QAbsent, "")

GetArrives == \E c \in Conns, id \in IdParams : Arrives(c, "get", id, NoBody, QAbsent, "")

CreateArrives ==
    \E c \in Conns, body \in Bodies, uuid \in FreshIds :
        Arrives(c, "create", "", body, QAbsent, uuid)

UpdateArrivesOn(C, I, B) ==
    \E c \in C, id \in I, body \in B : Arrives(c, "update", id, body, QAbsent, "")

UpdateArrives == UpdateArrivesOn(Conns, IdParams, Bodies)

DeleteArrivesOn(C, I) ==
    \E c \in C, id \in I : Arrives(c, "delete", id, NoBody, QAbsent, "")

DeleteArrives == DeleteArrivesOn(Conns, IdParams)

SearchArrives == \E c \in Conns, term \in Terms : Arrives(c, "search", "", NoBody, term, "")

\* the HTTP client follows the 302 of GET /api/search
RedirectFollowed ==
    \E c \in Conns :
        /\ req[c].st = "done"
        /\ req[c].status = 302
        /\ Arrives(c, "list", "", NoBody, QAbsent, "")

\* GET /health is registered without checkDbConnection
HealthArrives ==
    \E c \in Conns :
        /\ listening
        /\ req[c].st # "pending"
        /\ req' = [req EXCEPT ![c] = health(NewReq("health", "", NoBody, QAbsent))]
        /\ UNCHANGED <<table, others, clock, lifecycleVars, mainVars, clientVars>>

\* storage executes the statement and the handler resumes with the result; found
\* records whether the statement met a row of its key (the handler is not told)
StorageRespondsOn(C) ==
    \E c \in C :
        /\ req[c].st = "pending"
        /\ table' = ApplyOp(table, req[c].op, req[c].args)
        /\ req' = [req EXCEPT ![c] =
                     Resume([req[c] EXCEPT !.found = Present(table, req[c].args.id)],
                            ResultRows(table, req[c].op, req[c].args))]
        /\ UNCHANGED <<others, clock, lifecycleVars, mainVars, clientVars>>

StorageResponds == StorageRespondsOn(Conns)

\* the statement fails (timeout, transport or query error): the catch block runs
StorageFailsOn(C) ==
    \E c \in C :
        /\ req[c].st = "pending"
        /\ req' = [req EXCEPT ![c] = Catch(req[c], "storage")]
        /\ UNCHANGED <<table, others, clock, lifecycleVars, mainVars, clientVars>>

StorageFails == StorageFailsOn(Conns)

\* time passes
Tick ==
    /\ clock < MaxClock
    /\ clock' = clock + 1
    /\ UNCHANGED <<table, others, req, lifecycleVars, mainVars, clientVars>>

\* the page before DOMContentLoaded has run its last statement
InitPage ==
    /\ hpc = "load"
    /\ checks = 0
    /\ htimer = 0
    /\ autoFetches = 0
    /\ retryCount = 0
    /\ inflight = 0
    /\ ltimers = 0
    /\ lastDelay = 0
    /\ isEditing = FALSE
    /\ btnText = "Add Item"
    /\ btnDisabled = FALSE
    /\ cancelHidden = TRUE
    /\ menuId = ""
    /\ submission = "none"
    /\ originalBtnText = ""
    /\ edits = 0

InitProcess ==
    /\ isDbConnected = FALSE
    /\ dbInitialized = FALSE
    /\ mainPc = "call"
    /\ started = 0
    /\ listening = FALSE
    /\ pc = "idle"
    /\ attempt = 0
    /\ failures = 0
    /\ successes = 0
    /\ issued = <<>>
    /\ okSteps = 0
    /\ timer = 0
    /\ promise = "none"
    /\ table \in InitTables
    /\ clock = 0
    /\ req = [c \in AllConns |-> IdleReq]
    /\ InitPage

\* the process starts on a menu of a few records
Init == InitProcess /\ others = 0

Next ==
    \/ CallConnect
    \/ StepSucceeds
    \/ StepFails
    \/ Retry
    \/ Listen
    \/ ListArrives
    \/ GetArrives
    \/ CreateArrives
    \/ UpdateArrives
    \/ DeleteArrives
    \/ SearchArrives
    \/ RedirectFollowed
    \/ HealthArrives
    \/ StorageResponds
    \/ StorageFails
    \/ Tick

Spec == Init /\ [][Next]_vars

\* Every awaited provisioning step settles (the driver bounds it by connectTimeout and
\* readTimeout), every armed timer fires, and the top-level code runs to its end.
FairSpec ==
    /\ Spec
    /\ WF_vars(CallConnect)
    /\ WF_vars(Listen)
    /\ WF_vars(StepSucceeds \/ StepFails)
    /\ WF_vars(Retry)

(* ------------------------------------------------------------------ *)
(* Two clients writing the same record at the same time                *)
(* ------------------------------------------------------------------ *)

\* the record both clients write, and what they send
SharedIds == {"u1"}
WriterBodies == {BodySoup, BodyCake}

ConcUpdateArrives == UpdateArrivesOn(AllConns, SharedIds, WriterBodies)

ConcDeleteArrives == DeleteArrivesOn(AllConns, SharedIds)

\* storage applies the statements in flight one at a time, in any order
ConcStorageResponds == StorageRespondsOn(AllConns)

ConcStorageFails == StorageFailsOn(AllConns)

ConcNext ==
    \/ CallConnect
    \/ StepSucceeds
    \/ StepFails
    \/ Retry
    \/ Listen
    \/ ConcUpdateArrives
    \/ ConcDeleteArrives
    \/ ConcStorageResponds
    \/ ConcStorageFails
    \/ Tick

ConcSpec == Init /\ [][ConcNext]_vars

(* ------------------------------------------------------------------ *)
(* Reading a menu that is longer than one page                         *)
(* ------------------------------------------------------------------ *)

\* the process starts on a menu that holds a page of records besides those of table
PagedInit == InitProcess /\ others = FETCH_SIZE

PagedNext ==
    \/ CallConnect
    \/ StepSucceeds
    \/ StepFails
    \/ Retry
    \/ Listen
    \/ ListArrives
    \/ GetArrives
    \/ SearchArrives
    \/ RedirectFollowed
    \/ StorageResponds
    \/ StorageFails
    \/ Tick

PagedSpec == PagedInit /\ [][PagedNext]_vars

(* ------------------------------------------------------------------ *)
(* The page (public/app.js): health polling and the listing's retries  *)
(* ------------------------------------------------------------------ *)

\* bounds of the page's model: the health checks counted, and the listing fetches a
\* user's actions keep going at once
MaxChecks == 3
MaxInflight == 2

\* const MAX_RETRIES
MAX_RETRIES == 5

\* the delay of setTimeout(checkServerHealth, 2000)
HEALTH_DELAY_MS == 2000

\* data.database === 'Connected' && data.initialized === 'Yes', on the answer of GET /health
HealthReady ==
    /\ (IF isDbConnected THEN "Connected" ELSE "Disconnected") = "Connected"
    /\ (IF dbInitialized THEN "Yes" ELSE "No") = "Yes"

\* Math.min(1000 * Math.pow(2, retryCount), 30000)
RetryDelay(n) == Min(1000 * (2 ^ n), 30000)

\* checkServerHealth(), up to its fetch('/health')
checkServerHealth ==
    /\ hpc' = "inflight"
    /\ checks' = Min(checks + 1, MaxChecks)
    /\ htimer' = 0

\* fetchMenuItems(), up to its fetch('/api/menu-items')
fetchMenuItems == inflight' = inflight + 1

\* the last statement of the DOMContentLoaded handler: checkServerHealth()
PageLoad ==
    /\ hpc = "load"
    /\ listening
    /\ checkServerHealth
    /\ UNCHANGED <<autoFetches, listVars, formVars, lifecycleVars, mainVars, table, others, clock, req>>

\* GET /health is answered and the page reads the answer
HealthResolves ==
    /\ hpc = "inflight"
    /\ listening
    /\ IF HealthReady
         THEN /\ hpc' = "done"
              /\ autoFetches' = autoFetches + 1
              /\ fetchMenuItems
              /\ UNCHANGED htimer
         ELSE /\ hpc' = "timer"
              /\ htimer' = HEALTH_DELAY_MS
              /\ UNCHANGED <<autoFetches, inflight>>
    /\ UNCHANGED <<checks, retryCount, ltimers, lastDelay, formVars, lifecycleVars, mainVars,
                   table, others, clock, req>>

\* (variant) a failed health request ends the polling
HealthRejectsGivesUp ==
    /\ hpc = "inflight"
    /\ hpc' = "done"
    /\ UNCHANGED <<checks, htimer, autoFetches, listVars, formVars, lifecycleVars, mainVars,
                   table, others, clock, req>>

\* fetch('/health') fails, or its body is not JSON: the catch arms the timer
HealthRejects ==
    /\ hpc = "inflight"
    /\ hpc' = "timer"
    /\ htimer' = HEALTH_DELAY_MS
    /\ UNCHANGED <<checks, autoFetches, listVars, formVars, lifecycleVars, mainVars,
                   table, others, clock, req>>

\* the health timer fires: checkServerHealth()
HealthTimerFires ==
    /\ hpc = "timer"
    /\ checkServerHealth
    /\ UNCHANGED <<autoFetches, listVars, formVars, lifecycleVars, mainVars, table, others, clock, req>>

\* a click on Clear search, or a search with an empty field: fetchMenuItems()
UserFetch ==
    /\ hpc # "load"
    /\ inflight + ltimers < MaxInflight
    /\ fetchMenuItems
    /\ UNCHANGED <<retryCount, ltimers, lastDelay, pollVars, formVars, lifecycleVars, mainVars,
                   table, others, clock, req>>

\* a listing fetch is answered 200: the second then resets the counter
FetchSucceeds ==
    /\ inflight > 0
    /\ listening
    /\ checkDbConnection
    /\ inflight' = inflight - 1
    /\ retryCount' = 0
    /\ UNCHANGED <<ltimers, lastDelay, pollVars, formVars, lifecycleVars, mainVars,
                   table, others, clock, req>>

\* (variant) the retry is scheduled without the test of retryCount
FetchFailsUnbounded ==
    /\ inflight > 0
    /\ inflight' = inflight - 1
    /\ lastDelay' = RetryDelay(retryCount)
    /\ retryCount' = retryCount + 1
    /\ ltimers' = ltimers + 1
    /\ UNCHANGED <<pollVars, formVars, lifecycleVars, mainVars, table, others, clock, req>>

\* a listing fetch fails (503, 500, or no answer): the catch of fetchMenuItems
FetchFails ==
    /\ inflight > 0
    /\ inflight' = inflight - 1
    /\ IF retryCount < MAX_RETRIES
         THEN /\ lastDelay' = RetryDelay(retryCount)
              /\ retryCount' = retryCount + 1
              /\ ltimers' = ltimers + 1
         ELSE UNCHANGED <<lastDelay, retryCount, ltimers>>
    /\ UNCHANGED <<pollVars, formVars, lifecycleVars, mainVars, table, others, clock, req>>

\* a retry timer fires: fetchMenuItems()
RetryTimerFires ==
    /\ ltimers > 0
    /\ ltimers' = ltimers - 1
    /\ fetchMenuItems
    /\ UNCHANGED <<retryCount, lastDelay, pollVars, formVars, lifecycleVars, mainVars,
                   table, others, clock, req>>

PollNext ==
    \/ CallConnect
    \/ StepSucceeds
    \/ StepFails
    \/ Retry
    \/ Listen
    \/ PageLoad
    \/ HealthResolves
    \/ HealthRejects
    \/ HealthTimerFires
    \/ UserFetch
    \/ FetchSucceeds
    \/ FetchFails
    \/ RetryTimerFires

PollSpec == Init /\ [][PollNext]_vars

(* ------------------------------------------------------------------ *)
(* The page (public/app.js): the form                                  *)
(* ------------------------------------------------------------------ *)

\* bound of the form's model: the handleEdit requests going at once
MaxEdits == 1

\* resetForm(): the mode, the cancel button and the hidden id; it also sets the label
\* of the submit button to ResetLabel
resetForm ==
    /\ isEditing' = FALSE
    /\ cancelHidden' = TRUE
    /\ menuId' = ""

ResetLabel == "Add Item"

\* the submit handler up to its fetch: the label is saved, the button is disabled
Submit ==
    /\ ~btnDisabled
    /\ submission = "none"
    /\ inflight + ltimers < MaxInflight
    /\ originalBtnText' = btnText
    /\ btnText' = "Processing..."
    /\ btnDisabled' = TRUE
    /\ submission' = IF isEditing THEN "PUT" ELSE "POST"
    /\ UNCHANGED <<isEditing, cancelHidden, menuId, edits, pollVars, listVars,
                   lifecycleVars, mainVars, table, others, clock, req>>

\* the request of the submit handler is answered 2xx: the then runs resetForm() and
\* fetchMenuItems(), and after it the finally restores the saved label
SubmitSucceeds ==
    /\ submission # "none"
    /\ resetForm
    /\ fetchMenuItems
    /\ btnText' = originalBtnText
    /\ btnDisabled' = FALSE
    /\ submission' = "none"
    /\ UNCHANGED <<originalBtnText, edits, pollVars, retryCount, ltimers, lastDelay,
                   lifecycleVars, mainVars, table, others, clock, req>>

\* the request of the submit handler fails: the catch alerts, the finally restores
SubmitFails ==
    /\ submission # "none"
    /\ btnText' = originalBtnText
    /\ btnDisabled' = FALSE
    /\ submission' = "none"
    /\ UNCHANGED <<isEditing, cancelHidden, menuId, originalBtnText, edits, pollVars, listVars,
                   lifecycleVars, mainVars, table, others, clock, req>>

\* a click on the Edit button of a displayed record: handleEdit up to its fetch
EditClick ==
    /\ edits < MaxEdits
    /\ edits' = edits + 1
    /\ UNCHANGED <<isEditing, btnText, btnDisabled, cancelHidden, menuId, submission,
                   originalBtnText, pollVars, listVars, lifecycleVars, mainVars,
                   table, others, clock, req>>

\* the record of handleEdit arrives: the form is filled and put into edit mode
EditResolves ==
    /\ edits > 0
    /\ edits' = edits - 1
    /\ \E id \in Ids : menuId' = id
    /\ btnText' = "Update Item"
    /\ cancelHidden' = FALSE
    /\ isEditing' = TRUE
    /\ UNCHANGED <<btnDisabled, submission, originalBtnText, pollVars, listVars,
                   lifecycleVars, mainVars, table, others, clock, req>>

\* the request of handleEdit fails: the catch alerts
EditRejects ==
    /\ edits > 0
    /\ edits' = edits - 1
    /\ UNCHANGED <<isEditing, btnText, btnDisabled, cancelHidden, menuId, submission,
                   originalBtnText, pollVars, listVars, lifecycleVars, mainVars,
                   table, others, clock, req>>

\* a click on the cancel button, which shows in edit mode: resetForm()
CancelClick ==
    /\ ~cancelHidden
    /\ resetForm
    /\ btnText' = ResetLabel
    /\ UNCHANGED <<btnDisabled, submission, originalBtnText, edits, pollVars, listVars,
                   lifecycleVars, mainVars, table, others, clock, req>>

\* the page shows a listing: the process is ready, the health check has passed
FormInit ==
    /\ isDbConnected = TRUE
    /\ dbInitialized = TRUE
    /\ mainPc = "running"
    /\ started = 1
    /\ listening = TRUE
    /\ pc = "returned"
    /\ attempt = 1
    /\ failures = 0
    /\ successes = 1
    /\ issued = StepOrder
    /\ okSteps = Len(StepOrder)
    /\ timer = 0
    /\ promise = "resolved"
    /\ table \in InitTables \ {<<>>}
    /\ others = 0
    /\ clock = 0
    /\ req = [c \in AllConns |-> IdleReq]
    /\ hpc = "done"
    /\ checks = 1
    /\ htimer = 0
    /\ autoFetches = 1
    /\ retryCount = 0
    /\ inflight = 0
    /\ ltimers = 0
    /\ lastDelay = 0
    /\ isEditing = FALSE
    /\ btnText = "Add Item"
    /\ btnDisabled = FALSE
    /\ cancelHidden = TRUE
    /\ menuId = ""
    /\ submission = "none"
    /\ originalBtnText = ""
    /\ edits = 0

FormNext ==
    \/ Submit
    \/ SubmitSucceeds
    \/ SubmitFails
    \/ EditClick
    \/ EditResolves
    \/ EditRejects
    \/ CancelClick
    \/ FetchSucceeds
    \/ FetchFails
    \/ RetryTimerFires

FormSpec == FormInit /\ [][FormNext]_vars

(* ------------------------------------------------------------------ *)
(* Properties                                                          *)
(* ------------------------------------------------------------------ *)

\* isReady(): both flags are true
isReady == isDbConnected /\ dbInitialized

\* the request on connection c was answered / arrived while the flags were not both true
Answered(c) == req[c].st = "done"
ArrivedNotReady(c) == req[c].route # "none" /\ req[c].flags # <<TRUE, TRUE>>

\* C1: a data-route request that arrives while the flags are not both true is answered
\* 503, whatever its parameters, and has issued no storage operation.
C1_ReadinessGating ==
    \A c \in Conns :
        (req[c].route \in DataRoutes /\ ArrivedNotReady(c)) =>
            (Answered(c) /\ req[c].status = 503 /\ req[c].ops = 0 /\ ~req[c].passed)

\* a well-formed create was turned away with 503
C1_Witness ==
    \E c \in Conns :
        /\ req[c].route = "create"
        /\ req[c].body = BodySoup
        /\ ArrivedNotReady(c)
        /\ req[c].status = 503

\* C2: isReady is false until an activation of connectToDatabase has run all five steps
\* to success, and true from the state in which the last of them succeeded.
C2_ReadyIffProvisioned ==
    isReady <=> (successes >= 1 /\ pc = "returned" /\ issued = StepOrder
                 /\ okSteps = Len(StepOrder))

C2_Witness == isReady /\ successes = 1 /\ failures = 0

\* C3: after N failed attempts and a successful attempt N+1 the flags are both true,
\* one full sequence has succeeded, N+1 attempts were made and none is started
\* afterwards; and a run either gets there or keeps failing.
C3_RetryConvergence ==
    /\ [](pc = "returned" =>
            /\ isDbConnected /\ dbInitialized
            /\ successes = 1
            /\ attempt = Min(failures + 1, MaxAttempts)
            /\ timer = 0)
    /\ [][pc = "returned" =>
            (pc' = "returned" /\ attempt' = attempt /\ successes' = successes
             /\ isDbConnected' /\ dbInitialized')]_vars
    /\ (<>(pc = "returned") \/ []<>(pc = "sleep"))

\* ready after two failed attempts
C3_Witness == pc = "returned" /\ failures = 2 /\ attempt = 3 /\ isReady

\* C4: the two flags are equal in every state.
C4_FlagsEqual == isDbConnected = dbInitialized

\* a step past connect has succeeded, and a later one of the same attempt has failed
C4_Witness == pc = "sleep" /\ okSteps >= 2 /\ ~isDbConnected /\ ~dbInitialized

\* C5: an attempt issues connect, createKeyspace, useKeyspace, createTable, testSelect
\* in that order, each only after the one before it has succeeded; after a failed step
\* it issues nothing more, and the next attempt starts with connect.
C5_StepOrder ==
    /\ [](/\ Len(issued) <= Len(StepOrder)
          /\ issued = SubSeq(StepOrder, 1, Len(issued))
          /\ (pc \in Steps => (Len(issued) = okSteps + 1 /\ issued[Len(issued)] = pc))
          /\ (pc = "sleep" => Len(issued) = okSteps + 1)
          /\ (pc = "returned" => (issued = StepOrder /\ okSteps = Len(StepOrder))))
    /\ [][(pc = "sleep" => issued' = issued \/ (pc' = "connect" /\ issued' = <<"connect">>))
          /\ (pc \in Steps /\ pc' = "sleep" => issued' = issued)]_vars

\* the third step failed and the next attempt has started over
C5_Witness == pc = "createKeyspace" /\ failures >= 1 /\ issued = <<"connect", "createKeyspace">>

\* C6: a failed attempt leaves both flags false and the 5000 ms timer armed, and the
\* next attempt follows, after any number of failures.
C6_RetryForever ==
    /\ [](pc = "sleep" => (~isDbConnected /\ ~dbInitialized /\ timer = RETRY_DELAY_MS))
    /\ [](pc \in {"idle", "sleep", "returned"} \cup Steps)
    /\ [][pc = "sleep" /\ pc' # "sleep" =>
            (pc' = "connect" /\ attempt' = Min(attempt + 1, MaxAttempts))]_vars
    /\ \A k \in 1..MaxAttempts :
          (pc = "sleep" /\ failures = k) ~> (pc = "connect" /\ attempt = Min(k + 1, MaxAttempts))

\* the third attempt in a row has failed
C6_Witness == pc = "sleep" /\ failures = MaxAttempts /\ timer = RETRY_DELAY_MS

\* the state of the lifecycle
LState ==
    IF pc \in Steps THEN "CONNECTING"
    ELSE IF pc = "returned" THEN "READY"
    ELSE "DISCONNECTED"

\* the steps of the lifecycle: no step leaves READY
LTransition ==
    <<LState, LState'>> \in
        { <<"DISCONNECTED", "DISCONNECTED">>, <<"DISCONNECTED", "CONNECTING">>,
          <<"CONNECTING", "CONNECTING">>, <<"CONNECTING", "DISCONNECTED">>,
          <<"CONNECTING", "READY">>, <<"READY", "READY">> }

\* a statement of a request fails in this step
StorageFault == \E c \in Conns : req[c].st = "pending" /\ req'[c].status = 500

\* C7 as stated: a storage failure in any state, READY included, sets both flags false.
C7_AnyFailureDisconnects ==
    [][StorageFault => (~isDbConnected' /\ ~dbInitialized')]_vars

\* C7, amended: the lifecycle is DISCONNECTED -> CONNECTING -> READY; a failure while
\* CONNECTING leads to DISCONNECTED with both flags false and CONNECTING is re-entered
\* after the delay; READY is never left, and a storage failure there changes no flag.
C7_Lifecycle ==
    /\ [](LState = "READY" <=> isReady)
    /\ [][LTransition]_vars
    /\ [][StorageFault => (LState = "READY" /\ UNCHANGED lifecycleVars)]_vars
    /\ (LState = "DISCONNECTED" ~> LState = "CONNECTING")

\* a request's statement has failed after READY, and the flags are still true
C7_Witness ==
    /\ LState = "READY"
    /\ isReady
    /\ failures >= 1
    /\ \E c \in Conns : req[c].status = 500 /\ req[c].ops = 1

\* provisioning operations outstanding: an awaited step, an armed timer
InProgress == (IF pc \in Steps THEN 1 ELSE 0) + (IF timer # 0 THEN 1 ELSE 0)

\* C8: connectToDatabase is called once from the top level, at most one step or timer
\* of provisioning is outstanding, app.listen does not wait for provisioning, and
\* requests are accepted and answered while it runs.
C8_StartedOnceNonBlocking ==
    /\ started <= 1
    /\ (mainPc # "call" <=> started = 1)
    /\ InProgress <= 1
    /\ (pc \in Steps \cup {"sleep"} <=> InProgress = 1)
    /\ (mainPc = "listen" => ENABLED Listen)
    /\ ((listening /\ pc # "returned") => (ENABLED HealthArrives /\ ENABLED ListArrives))
    /\ \A c \in Conns :
          ArrivedNotReady(c) =>
             /\ Answered(c)
             /\ req[c].status = IF req[c].route = "health" THEN 200 ELSE 503

\* /health was answered while the retry timer was armed
C8_Witness ==
    /\ listening
    /\ pc = "sleep"
    /\ \E c \in Conns :
          /\ req[c].route = "health"
          /\ req[c].status = 200
          /\ req[c].database = "Disconnected"

\* C9: the promise of connectToDatabase never rejects, no request is answered with a
\* provisioning failure, and after a failure the retry is always pending.
C9_ProvisioningFaultContained ==
    /\ promise # "rejected"
    /\ pc # "thrown"
    /\ (failures >= 1 => (promise \in {"pending", "resolved"} /\ pc \in Steps \cup {"sleep", "returned"}))
    /\ (pc = "sleep" => ENABLED Retry)
    /\ \A c \in Conns :
          req[c].status = 500 => (req[c].passed /\ (req[c].ops = 1 \/ req[c].term = QArray))

\* a request was answered while a failed attempt waited for its retry
C9_Witness ==
    /\ failures >= 2
    /\ promise = "pending"
    /\ pc = "sleep"
    /\ \E c \in Conns : req[c].route = "list" /\ req[c].status = 503

\* the term is absent, empty, or whitespace only
Blank(term) ==
    \/ term = QAbsent
    \/ (term # QArray /\ \A i \in 1..Len(term) : term[i] = " ")

\* C10: when ready, a search with an absent, empty or whitespace-only term gives the
\* records of the unfiltered listing, in the same order: the redirect to the listing,
\* or the scan unfiltered; only a failed statement makes it an error.
C10_EmptyTermIdentity ==
    \A c \in Conns :
        (req[c].route = "search" /\ Answered(c) /\ req[c].passed /\ Blank(req[c].term)) =>
            \/ (req[c].status = 302 /\ req[c].location = "/api/menu-items")
            \/ (req[c].status = 200 /\ req[c].out = req[c].rows)
            \/ (req[c].status = 500 /\ req[c].ops = 1)

\* a request on connection c gets its response in this step
Completes(c) == req[c].st = "pending" /\ req'[c].st = "done"

\* a search term that is a non-empty string
ProperTerm(term) == term \notin {QAbsent, QArray, <<>>}

\* field f is a string that, lower-cased, has lower-cased t as a contiguous substring
Contains(f, t) ==
    /\ f # NULL
    /\ \E i \in 1..Len(f), j \in 1..Len(f) :
          i <= j /\ toLowerCase(SubSeq(f, i, j)) = toLowerCase(t)

ShouldMatch(item, t) ==
    Contains(item.name, t) \/ Contains(item.description, t) \/ Contains(item.category, t)

\* the subsequence of rows whose records should match t
Expected(rows, t) ==
    LET idx == {i \in 1..Len(rows) : ShouldMatch(rows[i], t)}
        nth(k) == CHOOSE i \in idx : Cardinality({j \in idx : j < i}) = k - 1
    IN  [k \in 1..Cardinality(idx) |-> rows[nth(k)]]

C12_NullFieldsTolerated ==
    \A c \in Conns :
        (req[c].route = "search" /\ Answered(c) /\ req[c].passed
         /\ ProperTerm(req[c].term) /\ req[c].err # "storage") =>
            /\ req[c].status = 200
            /\ req[c].err = ""
            /\ \A i \in 1..Len(req[c].out) :
                  \E f \in {req[c].out[i].name, req[c].out[i].description,
                            req[c].out[i].category} :
                      f # NULL /\ Contains(f, req[c].term)
            /\ \A i \in 1..Len(req[c].rows) :
                  (req[c].rows[i].name = NULL /\ req[c].rows[i].description = NULL
                   /\ req[c].rows[i].category = NULL) =>
                      \A k \in 1..Len(req[c].out) : req[c].out[k] # req[c].rows[i]

\* the scan held a record with every field null and one with a null description;
\* the second one matched on its name
C12_Witness ==
    \E c \in Conns :
        /\ req[c].route = "search"
        /\ req[c].status = 200
        /\ req[c].term = <<"A", "B">>
        /\ req[c].rows = <<NullRow, SeedRow>>
        /\ req[c].out = <<SeedRow>>

\* the number a given price denotes: a numeric string denotes its number, any other
\* string none
GivenNumber(p) ==
    CASE p = "'4.50'" -> "4.5"
      [] OTHER -> "NaN"

\* the boolean a given is_vegetarian denotes; false when none is given
GivenBool(v) == IF v \in {"true", "'true'"} THEN "true" ELSE "false"

\* a successful get answers the stored row of its id
GetAnswersStored(c) ==
    (req[c].route = "get" /\ Completes(c) /\ req'[c].err = "") =>
        IF Present(table, req[c].id)
          THEN req'[c].status = 200 /\ req'[c].out = <<table[req[c].id]>>
          ELSE req'[c].status = 404

\* C13 as stated: after a successful create the stored record, which a get right after
\* answers, has the id returned and the name, description, category, price and
\* isVegetarian given to create, and createdAt = updatedAt.
C13_RoundTripExact ==
    [][\A c \in Conns :
          /\ GetAnswersStored(c)
          /\ (req[c].route = "create" /\ Completes(c) /\ req'[c].status = 201) =>
                /\ Present(table', req'[c].outId)
                /\ LET r == table'[req'[c].outId]
                   IN  /\ r.id = req'[c].outId
                       /\ r.name = req[c].body.name
                       /\ r.description = req[c].body.description
                       /\ r.category = req[c].body.category
                       /\ r.price = GivenNumber(req[c].body.price)
                       /\ r.is_vegetarian = GivenBool(req[c].body.is_vegetarian)
                       /\ r.created_at = r.updated_at]_vars

\* C13, amended: as stated, except that the price of the record is parseFloat of the
\* given price (its longest numeric prefix) and isVegetarian is true exactly when the
\* given value is true or 'true'.
C13_RoundTripConverted ==
    [][\A c \in Conns :
          /\ GetAnswersStored(c)
          /\ (req[c].route = "create" /\ Completes(c) /\ req'[c].err = "") =>
                /\ req'[c].status = 201
                /\ req'[c].outId \in Ids
                /\ ~Present(table, req'[c].outId)
                /\ Present(table', req'[c].outId)
                /\ LET r == table'[req'[c].outId]
                   IN  /\ r.id = req'[c].outId
                       /\ r.name = req[c].body.name
                       /\ r.description = req[c].body.description
                       /\ r.category = req[c].body.category
                       /\ r.price = (IF req[c].body.price = "'7abc'" THEN "7"
                                     ELSE GivenNumber(req[c].body.price))
                       /\ r.is_vegetarian = GivenBool(req[c].body.is_vegetarian)
                       /\ r.created_at = r.updated_at
                       /\ r.created_at # NoTime]_vars

\* a get answered a record that only a create of BodyCake can have stored
C13_Witness ==
    \E c \in Conns :
        /\ req[c].route = "get"
        /\ req[c].status = 200
        /\ req[c].id = "u2"
        /\ req[c].out[1].id = "u2"
        /\ req[c].out[1].name = BodyCake.name
        /\ req[c].out[1].price = "7"
        /\ req[c].out[1].created_at = req[c].out[1].updated_at
        /\ req[c].out[1].created_at # NoTime

\* connection c's update is applied by storage and answered in this step
UpdateApplied(c) == req[c].route = "update" /\ Completes(c) /\ req'[c].err = ""

\* what an applied update of an existing id does to every column but updated_at
UpdateReplaces(c) ==
    LET id == req[c].id
        old == table[id]
        new == table'[id]
    IN  /\ req'[c].status = 200
        /\ DOMAIN table' = DOMAIN table
        /\ \A i \in DOMAIN table \ {id} : table'[i] = table[i]
        /\ new.id = id
        /\ new.created_at = old.created_at
        /\ new.name = req[c].body.name
        /\ new.description = req[c].body.description
        /\ new.category = req[c].body.category
        /\ new.price = (IF req[c].body.price = "'7abc'" THEN "7"
                        ELSE GivenNumber(req[c].body.price))
        /\ new.is_vegetarian = GivenBool(req[c].body.is_vegetarian)

\* C14 as stated: an update of an existing id replaces name, description, category,
\* price and isVegetarian, sets updatedAt later than the previous updatedAt, and
\* leaves id and createdAt unchanged.
C14_UpdatedAtLater ==
    [][\A c \in Conns :
          (UpdateApplied(c) /\ Present(table, req[c].id)) =>
              /\ UpdateReplaces(c)
              /\ table'[req[c].id].updated_at > table[req[c].id].updated_at]_vars

\* C14, amended: updatedAt becomes the time the handler read when the request arrived,
\* which is not later than the time of the write and, without an overlapping write of
\* the id, not earlier than the previous updatedAt; it can be equal to it.
C14_UpdateFrame ==
    [][\A c \in Conns :
          (UpdateApplied(c) /\ Present(table, req[c].id)) =>
              /\ UpdateReplaces(c)
              /\ table'[req[c].id].updated_at = req[c].args.updated_at
              /\ table'[req[c].id].updated_at <= clock
              /\ table'[req[c].id].updated_at >= table[req[c].id].updated_at]_vars

\* an update of the seeded record was answered and left it with the new fields, the
\* updatedAt it had before and its createdAt
C14_Witness ==
    \E c \in Conns :
        /\ req[c].route = "update"
        /\ req[c].status = 200
        /\ req[c].id = "u1"
        /\ req[c].body = BodyCake
        /\ Present(table, "u1")
        /\ table["u1"].name = BodyCake.name
        /\ table["u1"].updated_at = SeedRow.updated_at
        /\ table["u1"].created_at = SeedRow.created_at

\* C15: an update of a well-formed id that matches no stored record is answered
\* NotFound (404) and leaves the stored record set unchanged.
C15_UpdateMissingNotFound ==
    [][\A c \in Conns :
          (UpdateApplied(c) /\ ~Present(table, req[c].id)) =>
              /\ req'[c].status = 404
              /\ table' = table]_vars

\* connection c's statement is applied by storage and answered in this step
Applied(c, route) == req[c].route = route /\ Completes(c) /\ req'[c].err = ""

\* C16: a successful delete removes the record of its id and changes no other record;
\* an id without a record gets one only by a later write that targets it; and while it
\* has none, get-by-id answers 404 and neither the listing nor a search returns it.
C16_DeleteThenAbsent ==
    [][/\ \A c \in Conns :
            /\ Applied(c, "delete") =>
                  /\ req'[c].status = 200
                  /\ DOMAIN table' = DOMAIN table \ {req[c].id}
                  /\ \A i \in DOMAIN table' : table'[i] = table[i]
            /\ (Applied(c, "get") /\ ~Present(table, req[c].id)) =>
                  /\ req'[c].status = 404
                  /\ req'[c].out = <<>>
            /\ (Applied(c, "list") \/ Applied(c, "search")) =>
                  /\ table' = table
                  /\ \A k \in 1..Len(req'[c].out) : Present(table, req'[c].out[k].id)
       /\ \A id \in Ids :
            (~Present(table, id) /\ Present(table', id)) =>
                \E c \in Conns : /\ Applied(c, "create") \/ Applied(c, "update")
                                 /\ req[c].args.id = id]_vars

\* the record u1 was deleted, the other record is as it was, and a get of u1 was
\* answered 404
C16_Witness ==
    \E c \in Conns :
        /\ req[c].route = "get"
        /\ req[c].id = "u1"
        /\ req[c].status = 404
        /\ ~Present(table, "u1")
        /\ Present(table, "u2")
        /\ table["u2"] = NullRow

\* the request carries a malformed identifier, or lacks a required field
Malformed(q) == q.route \in {"get", "update", "delete"} /\ q.id \notin Ids

Lacking(q) ==
    /\ q.route \in {"create", "update"}
    /\ \/ q.body.name = NULL
       \/ q.body.description = NULL
       \/ q.body.category = NULL
       \/ q.body.price = "undefined"

\* C17: a get, update or delete with a malformed identifier, and a create or update
\* lacking name, description, category or price, is answered 400 in the step it
\* arrives in, with no storage operation issued and the stored records unchanged.
C17_ValidationPrecedesStorage ==
    /\ [](\A c \in Conns :
            (req[c].passed /\ (Malformed(req[c]) \/ Lacking(req[c]))) =>
                /\ req[c].st = "done"
                /\ req[c].status = 400
                /\ req[c].ops = 0
                /\ req[c].op = "none"
                /\ req[c].err = "")
    /\ [][\A c \in Conns :
            (req'[c] # req[c] /\ req'[c].status = 400) => table' = table]_vars

\* an update of a stored record without a price was answered 400 and the record is
\* as it was
C17_Witness ==
    \E c \in Conns :
        /\ req[c].route = "update"
        /\ req[c].id = "u1"
        /\ req[c].body = BodyNoPrice
        /\ req[c].passed
        /\ req[c].status = 400
        /\ req[c].ops = 0
        /\ Present(table, "u1")
        /\ table["u1"] = SeedRow

\* C18: a statement that fails inside a data route is answered to that request with
\* 500; the statement is not issued again, the stored records and the two flags stay
\* as they are, no provisioning attempt starts, and the process accepts the next
\* requests.
C18_StorageFaultReported ==
    /\ [](\A c \in Conns :
            req[c].err = "storage" =>
                /\ req[c].route \in DataRoutes
                /\ req[c].st = "done"
                /\ req[c].status = 500
                /\ req[c].ops = 1
                /\ ENABLED ListArrives
                /\ ENABLED HealthArrives)
    /\ [][\A c \in Conns :
            (req[c].st = "pending" /\ req'[c].err = "storage") =>
                /\ table' = table
                /\ isDbConnected' = isDbConnected
                /\ dbInitialized' = dbInitialized
                /\ pc' = pc
                /\ attempt' = attempt]_vars

\* the INSERT of a create failed: the request was answered 500 and no record was stored
C18_Witness ==
    \E c \in Conns :
        /\ req[c].route = "create"
        /\ req[c].err = "storage"
        /\ req[c].status = 500
        /\ req[c].ops = 1
        /\ ~Present(table, req[c].args.id)
        /\ isDbConnected
        /\ dbInitialized

\* C19: a data request that arrived while both flags were true went through the gate,
\* is never answered 503, and while it waits for storage only its own statement's
\* outcome changes it: no step of the lifecycle manager touches it, and its outcome
\* can always be delivered.
C19_AdmittedRunsToResponse ==
    /\ [](\A c \in Conns :
            (req[c].route \in DataRoutes /\ req[c].flags = <<TRUE, TRUE>>) =>
                /\ req[c].passed
                /\ req[c].status # 503
                /\ req[c].st = "pending" => (ENABLED StorageResponds /\ req[c].status = 0))
    /\ [][\A c \in Conns :
            /\ (req[c].st = "pending" /\ req'[c] # req[c]) =>
                  /\ req'[c].st = "done"
                  /\ req'[c].route = req[c].route
                  /\ req'[c].passed
                  /\ req'[c].ops = req[c].ops
                  /\ req'[c].status \in {200, 201, 404, 500}
            /\ (pc' # pc \/ isDbConnected' # isDbConnected \/ dbInitialized' # dbInitialized
                  \/ timer' # timer) => req'[c] = req[c]]_vars

\* an update that went through the gate while ready was applied and answered 200
C19_Witness ==
    \E c \in Conns :
        /\ req[c].route = "update"
        /\ req[c].flags = <<TRUE, TRUE>>
        /\ req[c].passed
        /\ req[c].st = "done"
        /\ req[c].status = 200
        /\ req[c].ops = 1
        /\ Present(table, req[c].id)
        /\ table[req[c].id].name = req[c].body.name

\* C20: whatever the interleaving of two clients' updates and deletes of one id, each
\* write that storage applies is answered 200 and alone determines the record of the
\* id (an update leaves its own fields and updatedAt, even over a later updatedAt; a
\* delete leaves no record), and the records change by nothing else.
C20_LastWriterWins ==
    [][/\ \A c \in AllConns :
            /\ Applied(c, "update") =>
                  /\ req'[c].status = 200
                  /\ Present(table', req[c].id)
                  /\ LET new == table'[req[c].id]
                     IN  /\ new.name = req[c].body.name
                         /\ new.description = req[c].body.description
                         /\ new.category = req[c].body.category
                         /\ new.price = (IF req[c].body.price = "'7abc'" THEN "7"
                                         ELSE GivenNumber(req[c].body.price))
                         /\ new.is_vegetarian = GivenBool(req[c].body.is_vegetarian)
                         /\ new.updated_at = req[c].args.updated_at
            /\ Applied(c, "delete") =>
                  /\ req'[c].status = 200
                  /\ ~Present(table', req[c].id)
       /\ table' # table =>
            \E c \in AllConns : Applied(c, "update") \/ Applied(c, "delete")]_vars

\* two overlapping updates of u1 were both answered 200; the one that read the earlier
\* time was applied last, and the record is the one it wrote
C20_Witness ==
    /\ req["c1"].route = "update" /\ req["c1"].status = 200
    /\ req["c2"].route = "update" /\ req["c2"].status = 200
    /\ req["c1"].id = "u1" /\ req["c2"].id = "u1"
    /\ req["c1"].body = BodySoup /\ req["c2"].body = BodyCake
    /\ req["c1"].args.updated_at = 1
    /\ req["c2"].args.updated_at = 0
    /\ Present(table, "u1")
    /\ table["u1"].name = BodyCake.name
    /\ table["u1"].updated_at = 0

\* C21: every stored record is stored under its own id, so no two records share one;
\* the id of a record never changes; and a create stores its record under an id that
\* no record had, whatever id the body carries: a record with the body's id is left
\* as it was.
C21_IdUniqueServerGenerated ==
    /\ [](\A i \in DOMAIN table : table[i].id = i)
    /\ [][/\ \A i \in DOMAIN table \cap DOMAIN table' : table'[i].id = table[i].id
          /\ \A c \in Conns :
                Applied(c, "create") =>
                    /\ ~Present(table, req'[c].outId)
                    /\ DOMAIN table' = DOMAIN table \cup {req'[c].outId}
                    /\ \A i \in DOMAIN table : table'[i] = table[i]
                    /\ Present(table, req[c].body.id) => req'[c].outId # req[c].body.id]_vars

\* a create whose body carried the id of the stored record u1 was answered with the
\* generated id u2, and the record u1 is as it was
C21_Witness ==
    \E c \in Conns :
        /\ req[c].route = "create"
        /\ req[c].status = 201
        /\ req[c].body.id = "u1"
        /\ req[c].outId = "u2"
        /\ Present(table, "u1") /\ table["u1"] = SeedRow
        /\ Present(table, "u2") /\ table["u2"].id = "u2"

\* C22: once both flags are true, no step sets either back to false, starts another
\* provisioning attempt, issues another provisioning statement or arms the retry
\* timer, whatever statements of requests fail afterwards.
C22_ReadyAbsorbing ==
    [][(isDbConnected /\ dbInitialized) =>
          /\ isDbConnected' /\ dbInitialized'
          /\ pc = "returned" /\ pc' = "returned"
          /\ attempt' = attempt
          /\ failures' = failures
          /\ successes' = successes
          /\ started' = started
          /\ issued' = issued
          /\ timer = 0 /\ timer' = 0]_vars

\* ready after one failed attempt, and a request's statement has failed since
C22_Witness ==
    /\ isDbConnected /\ dbInitialized
    /\ pc = "returned"
    /\ failures = 1
    /\ attempt = 2
    /\ \E c \in Conns : req[c].err = "storage" /\ req[c].status = 500

\* C23: every record that a request stores or changes has a createdAt, the one it was
\* created with, and its createdAt is not later than its updatedAt (records that had
\* no createdAt before the step are left aside).
C23_CreatedAtSetOnce ==
    [][\A i \in DOMAIN table' :
          (~Present(table, i) \/ table[i].created_at # NoTime) =>
              /\ table'[i].created_at # NoTime
              /\ table'[i].created_at <= table'[i].updated_at
              /\ Present(table, i) => table'[i].created_at = table[i].created_at]_vars

\* C24: a request to a data route is either waiting for its one statement, with no
\* response sent and both outcomes of the statement deliverable, or it is finished
\* with exactly one response sent, of one of the statuses of its paths.
C24_ExactlyOneResponse ==
    /\ [](\A c \in Conns :
            req[c].route \in DataRoutes =>
                \/ /\ req[c].st = "done"
                   /\ req[c].sent = 1
                   /\ req[c].status \in {503, 400, 404, 200, 201, 302, 500}
                   /\ req[c].status = 503 <=> ~req[c].passed
                \/ /\ req[c].st = "pending"
                   /\ req[c].sent = 0
                   /\ req[c].status = 0
                   /\ ENABLED StorageResponds
                   /\ ENABLED StorageFails)
    /\ [][\A c \in Conns :
            (req[c].st = "pending" /\ req'[c] # req[c]) =>
                (req'[c].st = "done" /\ req'[c].sent = 1)]_vars

\* a get of a well-formed id without a record went through its statement and was
\* answered once, with 404
C24_Witness ==
    \E c \in Conns :
        /\ req[c].route = "get"
        /\ req[c].ops = 1
        /\ req[c].st = "done"
        /\ req[c].status = 404
        /\ req[c].sent = 1

\* C25: a delete of a well-formed id without a record is answered 200 and leaves the
\* stored records as they are; hence a second delete of an id, right after the first,
\* leaves the state the first left and is answered as the first was.
C25_DeleteIdempotent ==
    /\ [](\A id \in Ids :
            LET a == [NoArgs EXCEPT !.id = id]
            IN  /\ Delete(Delete(table, a), a) = Delete(table, a)
                /\ ~Present(table, id) => Delete(table, a) = table)
    /\ [][\A c \in Conns :
            Applied(c, "delete") =>
                /\ req'[c].status = 200
                /\ req'[c].out = <<>>
                /\ ~Present(table', req[c].id)
                /\ ~Present(table, req[c].id) => table' = table]_vars

\* the delete of u2, which has no record, was answered 200; the record u1 is there
C25_Witness ==
    \E c \in Conns :
        /\ req[c].route = "delete"
        /\ req[c].id = "u2"
        /\ req[c].status = 200
        /\ ~req[c].found
        /\ table = [i \in {"u1"} |-> SeedRow]

ReadRoutes == {"list", "get", "search"}

\* C26: no step of a listing, get-by-id or search, whether it arrives, succeeds or
\* fails, changes the stored records or the two flags; the one statement of a search
\* is the select of all rows without parameters, its result holds every stored
\* record, and the answer is a selection of that result.
C26_ReadsChangeNothing ==
    /\ [](\A c \in Conns :
            (req[c].route = "search" /\ req[c].ops > 0) =>
                /\ req[c].ops = 1
                /\ req[c].op = "selectAll"
                /\ req[c].args = NoArgs)
    /\ [][\A c \in Conns :
            /\ (req'[c] # req[c] /\ (req[c].st = "pending" => req[c].route \in ReadRoutes)
                                 /\ (req[c].st # "pending" => req'[c].route \in ReadRoutes)) =>
                  /\ table' = table
                  /\ isDbConnected' = isDbConnected
                  /\ dbInitialized' = dbInitialized
            /\ Applied(c, "search") =>
                  /\ Len(req'[c].rows) = Cardinality(DOMAIN table)
                  /\ req'[c].status = 200
                  /\ \A i \in DOMAIN table : \E k \in 1..Len(req'[c].rows) : req'[c].rows[k] = table[i]
                  /\ \A k \in 1..Len(req'[c].out) :
                        \E j \in 1..Len(req'[c].rows) : req'[c].out[k] = req'[c].rows[j]]_vars

\* C27: whenever the server listens, whatever the state of provisioning, a /health
\* request can be served; it is answered at once with 200 and status UP, database
\* Connected exactly when isDbConnected was true and initialized Yes exactly when
\* dbInitialized was true, and it issues no statement and changes neither the stored
\* records nor the flags.
C27_HealthUngated ==
    /\ [](\A c \in Conns :
            /\ (listening /\ req[c].st # "pending") => ENABLED HealthArrives
            /\ req[c].route = "health" =>
                  /\ req[c].st = "done"
                  /\ req[c].sent = 1
                  /\ req[c].status = 200
                  /\ req[c].up = "UP"
                  /\ req[c].database = "Connected" <=> req[c].flags[1]
                  /\ req[c].database = "Disconnected" <=> ~req[c].flags[1]
                  /\ req[c].initialized = "Yes" <=> req[c].flags[2]
                  /\ req[c].initialized = "No" <=> ~req[c].flags[2]
                  /\ req[c].ops = 0
                  /\ req[c].op = "none")
    /\ [][\A c \in Conns :
            (req'[c] # req[c] /\ req'[c].route = "health") =>
                /\ table' = table
                /\ isDbConnected' = isDbConnected
                /\ dbInitialized' = dbInitialized
                /\ pc' = pc]_vars

\* while the retry timer of a failed attempt is armed, /health was answered UP with
\* database Disconnected and initialized No
C27_Witness ==
    \E c \in Conns :
        /\ req[c].route = "health"
        /\ req[c].status = 200
        /\ req[c].up = "UP"
        /\ req[c].database = "Disconnected"
        /\ req[c].initialized = "No"
        /\ pc = "sleep"
        /\ failures >= 1

\* C28: the page-load chain calls fetchMenuItems only on a /health answer that reports
\* Connected and Yes, once, and then polls no more; every other outcome of a health
\* request, a not-ready answer or a failure, arms the 2000 ms timer, whose firing is
\* the next health check, however many checks there have been.
C28_HealthPolling ==
    /\ [](/\ autoFetches > 0 => hpc = "done"
          /\ hpc = "done" => (autoFetches = 1 /\ htimer = 0 /\ isDbConnected /\ dbInitialized)
          /\ hpc = "timer" => (htimer = 2000 /\ ENABLED HealthTimerFires)
          /\ hpc \in {"load", "inflight"} => htimer = 0
          /\ hpc = "load" => (checks = 0 /\ inflight = 0))
    /\ [][/\ (hpc = "inflight" /\ hpc' # "inflight") =>
                \/ /\ isDbConnected /\ dbInitialized
                   /\ hpc' = "done"
                   /\ autoFetches' = autoFetches + 1
                   /\ inflight' = inflight + 1
                \/ /\ hpc' = "timer"
                   /\ htimer' = 2000
                   /\ autoFetches' = autoFetches
                   /\ inflight' = inflight
          /\ (hpc = "timer" /\ hpc' # "timer") =>
                /\ hpc' = "inflight"
                /\ checks' = IF checks < MaxChecks THEN checks + 1 ELSE MaxChecks
          /\ hpc = "done" => (hpc' = "done" /\ checks' = checks /\ autoFetches' = autoFetches)
          /\ hpc' = "load" => hpc = "load"]_vars

\* after a failed provisioning attempt and at least three health checks, a ready
\* answer ended the polling and the listing was fetched
C28_Witness ==
    /\ hpc = "done"
    /\ autoFetches = 1
    /\ checks >= 3
    /\ failures >= 1
    /\ htimer = 0

\* a listing fetch settles in this step
FetchSettles == inflight' < inflight

\* C29: retryCount stays within 0..5; it changes only by a reset to 0 or, on a failed
\* listing fetch below 5, by one, and exactly then one retry timer is armed, with the
\* delay 1000 * 2^retryCount of the count before the increment; at 5 a failed fetch
\* arms nothing. This with up to three listing fetches and timers going at once.
C29_RetryBounded ==
    /\ [](/\ retryCount \in 0..5
          /\ lastDelay \in {0, 1000, 2000, 4000, 8000, 16000}
          /\ ltimers >= 0 /\ inflight >= 0)
    /\ [][/\ retryCount' # retryCount =>
                \/ retryCount' = 0 /\ FetchSettles /\ ltimers' = ltimers
                \/ /\ retryCount < 5
                   /\ retryCount' = retryCount + 1
                   /\ FetchSettles
                   /\ ltimers' = ltimers + 1
                   /\ lastDelay' = (CASE retryCount = 0 -> 1000
                                      [] retryCount = 1 -> 2000
                                      [] retryCount = 2 -> 4000
                                      [] retryCount = 3 -> 8000
                                      [] retryCount = 4 -> 16000)
          /\ ltimers' > ltimers => (retryCount < 5 /\ retryCount' = retryCount + 1)
          /\ (FetchSettles /\ retryCount' = retryCount) =>
                (retryCount \in {0, 5} /\ ltimers' = ltimers /\ lastDelay' = lastDelay)
          /\ (FetchSettles /\ retryCount = 5) => ltimers' = ltimers]_vars

\* five failures in a row: the counter is at 5, the last delay was 16000, no timer is
\* armed, and two listing fetches started by the user are in flight
C29_Witness ==
    /\ retryCount = 5
    /\ lastDelay = 16000
    /\ ltimers = 0
    /\ inflight = 2

\* C30: whenever no submission is in flight the submit button is enabled, and its
\* label is 'Update Item' exactly in edit mode and 'Add Item' exactly in add mode;
\* a submission that succeeds leaves add mode with 'Add Item', and one that fails
\* leaves the mode and the label it was made with.
C30_FormConsistent ==
    /\ [](submission = "none" =>
            /\ ~btnDisabled
            /\ btnText = "Update Item" <=> isEditing
            /\ btnText = "Add Item" <=> ~isEditing)
    /\ [][(submission # "none" /\ submission' = "none") =>
            \/ ~isEditing' /\ btnText' = "Add Item"
            \/ isEditing' = isEditing /\ btnText' = originalBtnText]_vars

\* the state the form page of FormInit stands for is one the process and page reach
FormInitReached ==
    /\ isDbConnected /\ dbInitialized /\ listening /\ pc = "returned"
    /\ attempt = 1 /\ failures = 0 /\ successes = 1
    /\ issued = StepOrder /\ okSteps = Len(StepOrder) /\ timer = 0
    /\ promise = "resolved" /\ mainPc = "running" /\ started = 1
    /\ hpc = "done" /\ checks = 1 /\ htimer = 0 /\ autoFetches = 1
    /\ retryCount = 0 /\ inflight = 0 /\ ltimers = 0 /\ lastDelay = 0

====
